---- MODULE Spec2Model ----
(***************************************************************************)
(* Model of MaxText/train_tokenizer.py: the corpus sampler                 *)
(* (_dump_chars_to_textfile) and the train-and-publish routine             *)
(* (_train_sentencepiece) run by every process of a multi-process job.     *)
(*                                                                         *)
(* Byte strings and paths are sequences of one-token strings, so that      *)
(* len(), +, startswith() and the '.rntmp' suffix are computed.            *)
(***************************************************************************)
EXTENDS Integers, Sequences, FiniteSets, TLC

\* ------------------------------------------------------------------ bounds
NumProcs == 2        \* processes of the job, jax.process_index() in 0..NumProcs-1
MaxRecords == 3      \* longest dataset stream
MaxFieldLen == 2     \* longest field value of a record, in bytes
MaxChars == 5        \* largest maxchars budget
ModelLen == 2        \* bytes of a trained model file

VARIABLES
  repeats,      \* whether the stream starts over at its end (an endless stream)
  dataset,      \* the record stream every process iterates (its own iterator)
  maxchars,     \* byte budget
  data_keys,    \* ordered tuple of field keys
  model_path,   \* destination as given by the caller
  assets_path,  \* assets directory as given by the caller
  passwd,       \* password database of the host: '~name' -> home directory
  fs,           \* shared filesystem: path -> [exists, data]
  dirs,         \* directories that exist on the local filesystem
  initFinal,    \* the file at the destination when the job started
  pc,           \* per process: position in _train_sentencepiece
  char_count,   \* per process: the running byte counter of the sampler
  scratch,      \* per process: content of its /tmp/ds_chars scratch file
  sampleRet,    \* per process: what _dump_chars_to_textfile returned
  pulled,       \* per process: records pulled from the stream by next()
  trainCalls,   \* per process: calls of SentencePieceTrainer.Train
  model,        \* per process: content of its trained model_fp.name + '.model'
  err,          \* per process: the exception that ended it, or "none"
  lastPoll,     \* per process: result of its latest exists() poll
  renames       \* calls of tf.io.gfile.rename that completed

vars == <<repeats, dataset, maxchars, data_keys, model_path, assets_path,
          passwd, fs, dirs, initFinal, pc, char_count, scratch, sampleRet, pulled,
          trainCalls, model, err, lastPoll, renames>>

Procs == 0 .. (NumProcs - 1)

\* ------------------------------------------------------------ byte strings
NL == "\n"

Keys == {"text", "title"}

\* the bytes a field may hold: the two fields use different letters, so the
\* order of the keys shows in the file
Letter(k) == IF k = "text" THEN "a" ELSE "b"

FieldValues(k, maxLen) == UNION {[1 .. n -> {Letter(k)}] : n \in 0 .. maxLen}

Records == [text : FieldValues("text", MaxFieldLen), title : FieldValues("title", 1)]

Datasets == UNION {[1 .. n -> Records] : n \in 0 .. MaxRecords}

\* the data_keys tuples tried: none, one key, two keys in both orders, a repeat
KeyTuples == {<<>>, <<"text">>, <<"title">>, <<"text", "title">>,
              <<"title", "text">>, <<"text", "text">>}

\* ---------------------------------------------------------- corpus sampler
\* line 52: line = example[k] + b'\n'
Line(example, k) == example[k] \o <<NL>>

\* line 49: while char_count < maxchars
LoopCond(count, maxchars_) == count < maxchars_

\* lines 51-54 with the newline left out of the count
RECURSIVE ForKeysNoNl(_, _, _)
ForKeysNoNl(example, keys, st) ==
  IF keys = <<>> THEN st
  ELSE ForKeysNoNl(example, Tail(keys),
         [char_count |-> st.char_count + Len(example[Head(keys)]),
          outfp |-> st.outfp \o Line(example, Head(keys))])

\* lines 51-54: for k in data_keys: count and write the line of every key
RECURSIVE ForKeys(_, _, _)
ForKeys(example, keys, st) ==
  IF keys = <<>> THEN st
  ELSE ForKeys(example, Tail(keys),
         [char_count |-> st.char_count + Len(Line(example, Head(keys))),
          outfp |-> st.outfp \o Line(example, Head(keys))])

\* lines 49-54: the while loop; pos is the iterator's position in the stream.
\* next(ds_iter) on an exhausted stream raises StopIteration (ok = FALSE).
RECURSIVE DumpLoop(_, _, _, _, _)
DumpLoop(ds, maxchars_, keys, pos, st) ==
  IF ~LoopCond(st.char_count, maxchars_)
    THEN [ok |-> TRUE, outfp |-> st.outfp, char_count |-> st.char_count,
          pulled |-> pos - 1]
  ELSE IF pos > Len(ds)
    THEN [ok |-> FALSE, outfp |-> st.outfp, char_count |-> st.char_count,
          pulled |-> pos - 1]
  ELSE DumpLoop(ds, maxchars_, keys, pos + 1, ForKeys(ds[pos], keys, st))

\* the sampler with the end of the stream taken as a normal end of the loop
DumpCharsBreakOnEnd(ds, maxchars_, keys) ==
  [DumpLoop(ds, maxchars_, keys, 1, [char_count |-> 0, outfp |-> <<>>])
     EXCEPT !.ok = TRUE]

\* lines 32-55: _dump_chars_to_textfile
_dump_chars_to_textfile(ds, maxchars_, keys) ==
  DumpLoop(ds, maxchars_, keys, 1, [char_count |-> 0, outfp |-> <<>>])

\* ------------------------------------------------------------------ paths
Cwd == <<"/", "root">>

Home == <<"/", "root">>

\* a host without users, and a host with three: pwd.getpwnam(name).pw_dir by
\* the first component '~name' of a path
NoUsers == [t \in {} |-> <<>>]

SomeUsers ==
  ("~root" :> <<"/", "root">>) @@
  ("~daemon" :> <<"/", "usr", "/", "sbin">>) @@
  ("~systemd-network" :> <<"/">>)

\* the password databases the job is run with
Passwds == {NoUsers, SomeUsers}

\* the home directories os.path.expanduser finds: '~' is $HOME, '~name' the
\* entry of the host's password database
UserHomes(users) == ("~" :> Home) @@ users

\* userhome.rstrip('/')
RECURSIVE RstripSlash(_)
RstripSlash(path) ==
  IF path /= <<>> /\ path[Len(path)] = "/"
    THEN RstripSlash(SubSeq(path, 1, Len(path) - 1))
    ELSE path

\* os.path.expanduser on a host with the password database users: the first
\* component, '~' or '~name', becomes that user's home directory; a name
\* that is not in the database (KeyError) leaves the path as it is
Expanduser(path, users) ==
  IF path /= <<>> /\ Head(path) \in DOMAIN UserHomes(users)
    THEN LET expanded == RstripSlash(UserHomes(users)[Head(path)]) \o Tail(path)
         IN  IF expanded = <<>> THEN <<"/">> ELSE expanded
    ELSE path

IsName(t) == t /= "/"

\* path.split('/') without the empty components
Names(path) == SelectSeq(path, IsName)

\* os.path.normpath: 1 or 2 leading slashes are kept, 3 or more are 1
InitialSlashes(path) ==
  IF path = <<>> \/ Head(path) /= "/" THEN 0
  ELSE IF Len(path) >= 2 /\ path[2] = "/" /\ (Len(path) = 2 \/ path[3] /= "/")
    THEN 2
  ELSE 1

\* os.path.normpath: '.' is dropped, '..' takes the component before it away
\* (at the root it is dropped, at the head of a relative path it is kept)
RECURSIVE Resolve(_, _, _)
Resolve(names, kept, rooted) ==
  IF names = <<>> THEN kept
  ELSE LET n == Head(names) IN
    Resolve(Tail(names),
            IF n = "." THEN kept
            ELSE IF \/ n /= ".."
                    \/ (~rooted /\ kept = <<>>)
                    \/ (kept /= <<>> /\ kept[Len(kept)] = "..")
              THEN Append(kept, n)
            ELSE IF kept /= <<>> THEN SubSeq(kept, 1, Len(kept) - 1)
            ELSE kept,
            rooted)

\* '/'.join(comps)
RECURSIVE JoinNames(_)
JoinNames(names) ==
  IF names = <<>> THEN <<>>
  ELSE IF Len(names) = 1 THEN names
  ELSE <<Head(names), "/">> \o JoinNames(Tail(names))

\* os.path.normpath
Normpath(path) ==
  LET lead == InitialSlashes(path)
      out == [i \in 1 .. lead |-> "/"] \o
             JoinNames(Resolve(Names(path), <<>>, lead > 0))
  IN  IF out = <<>> THEN <<".">> ELSE out

\* os.path.abspath: normpath(join(os.getcwd(), path))
Abspath(path) ==
  Normpath(IF path /= <<>> /\ Head(path) = "/" THEN path
           ELSE Cwd \o <<"/">> \o path)

\* line 80: model_path.startswith('gs://')
StartsWithGs(path) == Len(path) >= 3 /\ SubSeq(path, 1, 3) = <<"gs:", "/", "/">>

\* lines 80-83: abs_model_path
AbsModelPath(path, users) ==
  IF StartsWithGs(path) THEN path ELSE Abspath(Expanduser(path, users))

\* line 84: abs_assets_path
AbsAssetsPath(path, users) == Abspath(Expanduser(path, users))

\* a copy placed directly at the target name
CopyRenamePathInPlace(path) == path

\* line 99: copy_rename_path = abs_model_path + '.rntmp'
CopyRenamePath(path) == path \o <<".rntmp">>

\* the directory a local file lives in
Dirname(path) ==
  LET slashes == {i \in 1 .. Len(path) : path[i] = "/"}
      last == CHOOSE i \in slashes : \A j \in slashes : j <= i
  IN  IF last = 1 THEN <<"/">> ELSE SubSeq(path, 1, last - 1)

\* line 101: the directories tf.io.gfile.makedirs(path) leaves in existence
MakedirsOf(path) ==
  {<<"/">>} \cup
  {SubSeq(path, 1, i) : i \in {j \in 2 .. Len(path) :
                                  j = Len(path) \/ path[j + 1] = "/"}}

\* --assets_path as main() passes it on: the default, and with a trailing slash
AssetsPaths == {<<"assets">>, <<"assets", "/">>}

\* os.path.join(assets_path, vocab_model_name) as main() builds it, the same
\* file named through '.' and through a user's home directory, a remote
\* destination, and a local destination outside the assets directory
ModelPaths == {<<"assets", "/", "tokenizer">>,
               <<".", "/", "assets", "/", "tokenizer">>,
               <<"~root", "/", "assets", "/", "tokenizer">>,
               <<"gs:", "/", "/", "bucket", "/", "tokenizer">>,
               <<"vocab", "/", "tokenizer">>}

FilePaths ==
  {AbsModelPath(m, u) : m \in ModelPaths, u \in Passwds} \cup
  {CopyRenamePath(AbsModelPath(m, u)) : m \in ModelPaths, u \in Passwds}

\* lines 80-83 for each destination and each host of the job
AbsModelPathOf == [m \in ModelPaths, u \in Passwds |-> AbsModelPath(m, u)]

FinalPath == AbsModelPathOf[model_path, passwd]

StagingPath == CopyRenamePath(AbsModelPathOf[model_path, passwd])

\* ------------------------------------------------------------------ files
Absent == [exists |-> FALSE, data |-> <<>>]

File(bytes) == [exists |-> TRUE, data |-> bytes]

\* the artifact an earlier run with the same target path left behind
OldModel == <<"o", "l", "d">>

\* the model file SentencePieceTrainer.Train leaves at model_fp.name + '.model'
TrainedModel == [i \in 1 .. ModelLen |-> "m"]

\* ------------------------------------------------------------ initial state
NoReturn == [returned |-> FALSE, char_count |-> 0]

ProcInit ==
  /\ pc = [p \in Procs |-> "Start"]
  /\ char_count = [p \in Procs |-> 0]
  /\ scratch = [p \in Procs |-> <<>>]
  /\ sampleRet = [p \in Procs |-> NoReturn]
  /\ pulled = [p \in Procs |-> 0]
  /\ trainCalls = [p \in Procs |-> 0]
  /\ model = [p \in Procs |-> Absent]
  /\ err = [p \in Procs |-> "none"]
  /\ lastPoll = [p \in Procs |-> "none"]
  /\ renames = 0

\* the destination is absent, or holds the complete artifact of an earlier run
\* (whose directory then exists); the staging name is absent; with
\* --assets_path=assets/ the destination is the one main() joins from it; the
\* host without users is run with the destination its database decides
FsInit ==
  /\ passwd \in Passwds
  /\ model_path \in ModelPaths
  /\ passwd = NoUsers => Head(model_path) = "~root"
  /\ assets_path \in AssetsPaths
  /\ assets_path = <<"assets", "/">> => model_path = <<"assets", "/", "tokenizer">>
  /\ initFinal \in {Absent, File(OldModel)}
  /\ fs = [f \in FilePaths |-> IF f = FinalPath THEN initFinal ELSE Absent]
  /\ \E made \in SUBSET {AbsAssetsPath(a, passwd) : a \in AssetsPaths \cup {<<"vocab">>}} :
       dirs = MakedirsOf(Cwd) \cup UNION {MakedirsOf(d) : d \in made}
  /\ (initFinal.exists /\ ~StartsWithGs(model_path)) => Dirname(FinalPath) \in dirs

\* the record every stream of the job model repeats
JobRecord == [text |-> <<"a">>, title |-> <<"b">>]

Init ==
  /\ repeats = FALSE
  /\ dataset \in {[i \in 1 .. n |-> JobRecord] : n \in {1, MaxRecords}}
  /\ maxchars \in {2, MaxChars}
  /\ data_keys \in {<<"text">>, <<"text", "title">>}
  /\ FsInit
  /\ ProcInit

\* ------------------------------------------------------------------ steps
\* line 96: jax.process_index() == 0, with every process taken as the leader
IsLeaderAll(p) == TRUE

\* line 96 with no process taken as the leader
IsLeaderNone(p) == FALSE

\* line 96: jax.process_index() == 0
IsLeader(p) == p = 0

Fail(p, e) ==
  /\ pc' = [pc EXCEPT ![p] = "Failed"]
  /\ err' = [err EXCEPT ![p] = e]

\* lines 85-86, the sampler returns (fname, char_count)
SampleOk(p) ==
  /\ pc[p] = "Start"
  /\ LET r == _dump_chars_to_textfile(dataset, maxchars, data_keys) IN
       /\ r.ok
       /\ scratch' = [scratch EXCEPT ![p] = r.outfp]
       /\ char_count' = [char_count EXCEPT ![p] = r.char_count]
       /\ pulled' = [pulled EXCEPT ![p] = r.pulled]
       /\ sampleRet' = [sampleRet EXCEPT ![p] =
                          [returned |-> TRUE, char_count |-> r.char_count]]
  /\ pc' = [pc EXCEPT ![p] = "Sampled"]
  /\ UNCHANGED <<passwd, repeats, dataset, maxchars, data_keys, model_path,
                 assets_path, fs,
                 dirs, initFinal, trainCalls, model, err, lastPoll, renames>>

\* lines 85-86, next(ds_iter) raises StopIteration and the exception leaves
\* _train_sentencepiece; the scratch file keeps what was written
SampleExhausted(p) ==
  /\ pc[p] = "Start"
  /\ LET r == _dump_chars_to_textfile(dataset, maxchars, data_keys) IN
       /\ ~r.ok
       /\ scratch' = [scratch EXCEPT ![p] = r.outfp]
       /\ char_count' = [char_count EXCEPT ![p] = r.char_count]
       /\ pulled' = [pulled EXCEPT ![p] = r.pulled]
  /\ Fail(p, "StreamExhausted")
  /\ UNCHANGED <<passwd, repeats, dataset, maxchars, data_keys, model_path,
                 assets_path, fs,
                 dirs, initFinal, sampleRet, trainCalls, model, lastPoll,
                 renames>>

\* lines 87-96: Train returns and the process takes its branch
Train(p) ==
  /\ pc[p] = "Sampled"
  /\ trainCalls' = [trainCalls EXCEPT ![p] = @ + 1]
  /\ model' = [model EXCEPT ![p] = File(TrainedModel)]
  /\ pc' = [pc EXCEPT ![p] =
               IF IsLeader(p)
                 THEN (IF StartsWithGs(model_path) THEN "Copy" ELSE "MakeDirs")
                 ELSE "Waiting"]
  /\ UNCHANGED <<passwd, repeats, char_count, dataset, maxchars, data_keys,
                 model_path, assets_path, fs,
                 dirs, initFinal, scratch, sampleRet, pulled, err, lastPoll,
                 renames>>

\* line 95: Train raises
TrainFail(p) ==
  /\ pc[p] = "Sampled"
  /\ trainCalls' = [trainCalls EXCEPT ![p] = @ + 1]
  /\ Fail(p, "TrainingFailure")
  /\ UNCHANGED <<passwd, repeats, char_count, dataset, maxchars, data_keys,
                 model_path, assets_path, fs,
                 dirs, initFinal, scratch, sampleRet, pulled, model, lastPoll,
                 renames>>

\* lines 100-101: tf.io.gfile.makedirs(abs_assets_path)
MakeDirs(p) ==
  /\ pc[p] = "MakeDirs"
  /\ dirs' = dirs \cup MakedirsOf(AbsAssetsPath(assets_path, passwd))
  /\ pc' = [pc EXCEPT ![p] = "Copy"]
  /\ UNCHANGED <<passwd, repeats, char_count, dataset, maxchars, data_keys,
                 model_path, assets_path, fs,
                 initFinal, scratch, sampleRet, pulled, trainCalls, model, err,
                 lastPoll, renames>>

\* line 101: makedirs raises
MakeDirsFail(p) ==
  /\ pc[p] = "MakeDirs"
  /\ Fail(p, "PublishFailure")
  /\ UNCHANGED <<passwd, repeats, char_count, dataset, maxchars, data_keys,
                 model_path, assets_path, fs,
                 dirs, initFinal, scratch, sampleRet, pulled, trainCalls, model,
                 lastPoll, renames>>

\* a local file can be created only in a directory that exists
CanCreate(path) == StartsWithGs(path) \/ Dirname(path) \in dirs

\* line 102: copy(..., overwrite=True) creates or truncates its destination
CopyOpen(p) ==
  /\ pc[p] = "Copy"
  /\ CanCreate(StagingPath)
  /\ fs' = [fs EXCEPT ![StagingPath] = File(<<>>)]
  /\ pc' = [pc EXCEPT ![p] = "Copying"]
  /\ UNCHANGED <<passwd, repeats, char_count, dataset, maxchars, data_keys,
                 model_path, assets_path, dirs,
                 initFinal, scratch, sampleRet, pulled, trainCalls, model, err,
                 lastPoll, renames>>

\* line 102: copy writes the next byte of the model file; it returns once the
\* destination holds them all
CopyChunk(p) ==
  /\ pc[p] = "Copying"
  /\ fs[StagingPath].exists
  /\ Len(fs[StagingPath].data) < Len(model[p].data)
  /\ LET n == Len(fs[StagingPath].data) + 1 IN
       /\ fs' = [fs EXCEPT ![StagingPath] =
                    File(fs[StagingPath].data \o <<model[p].data[n]>>)]
       /\ pc' = [pc EXCEPT ![p] =
                    IF n = Len(model[p].data) THEN "Rename" ELSE "Copying"]
  /\ UNCHANGED <<passwd, repeats, char_count, dataset, maxchars, data_keys,
                 model_path, assets_path, dirs,
                 initFinal, scratch, sampleRet, pulled, trainCalls, model, err,
                 lastPoll, renames>>

\* line 102: copy raises, before or in the middle of its writes (always when
\* the destination directory is missing)
CopyFail(p) ==
  /\ pc[p] \in {"Copy", "Copying"}
  /\ Fail(p, "PublishFailure")
  /\ UNCHANGED <<passwd, repeats, char_count, dataset, maxchars, data_keys,
                 model_path, assets_path, fs,
                 dirs, initFinal, scratch, sampleRet, pulled, trainCalls, model,
                 lastPoll, renames>>

\* a rename that writes over the destination in place, without truncating it
RenameInPlace(p) ==
  /\ pc[p] = "Rename"
  /\ fs' = [f \in FilePaths |->
              IF f = FinalPath
                THEN File(fs[StagingPath].data \o
                          SubSeq(fs[FinalPath].data, Len(fs[StagingPath].data) + 1,
                                 Len(fs[FinalPath].data)))
              ELSE IF f = StagingPath THEN Absent
              ELSE fs[f]]
  /\ renames' = renames + 1
  /\ pc' = [pc EXCEPT ![p] = "Done"]
  /\ UNCHANGED <<passwd, repeats, char_count, dataset, maxchars, data_keys,
                 model_path, assets_path, dirs,
                 initFinal, scratch, sampleRet, pulled, trainCalls, model, err,
                 lastPoll>>

\* lines 103-104: rename(copy_rename_path, abs_model_path, overwrite=True),
\* one atomic step of the storage layer
Rename(p) ==
  /\ pc[p] = "Rename"
  /\ fs' = [f \in FilePaths |->
              IF f = FinalPath THEN fs[StagingPath]
              ELSE IF f = StagingPath THEN Absent
              ELSE fs[f]]
  /\ renames' = renames + 1
  /\ pc' = [pc EXCEPT ![p] = "Done"]
  /\ UNCHANGED <<passwd, repeats, char_count, dataset, maxchars, data_keys,
                 model_path, assets_path, dirs,
                 initFinal, scratch, sampleRet, pulled, trainCalls, model, err,
                 lastPoll>>

\* line 103: rename raises
RenameFail(p) ==
  /\ pc[p] = "Rename"
  /\ Fail(p, "PublishFailure")
  /\ UNCHANGED <<passwd, repeats, char_count, dataset, maxchars, data_keys,
                 model_path, assets_path, fs,
                 dirs, initFinal, scratch, sampleRet, pulled, trainCalls, model,
                 lastPoll, renames>>

\* line 106: exists() raises (a file-system error other than a missing
\* path); nothing catches it and the process ends with the error
PollFail(p) ==
  /\ pc[p] = "Waiting"
  /\ Fail(p, "ExistsFailure")
  /\ UNCHANGED <<passwd, repeats, char_count, dataset, maxchars, data_keys,
                 model_path, assets_path, fs,
                 dirs, initFinal, scratch, sampleRet, pulled, trainCalls, model,
                 lastPoll, renames>>

\* lines 106-107: exists() is false, sleep(1) and poll again
PollAbsent(p) ==
  /\ pc[p] = "Waiting"
  /\ ~fs[FinalPath].exists
  /\ lastPoll' = [lastPoll EXCEPT ![p] = "absent"]
  /\ UNCHANGED <<passwd, repeats, char_count, dataset, maxchars, data_keys,
                 model_path, assets_path, fs,
                 dirs, initFinal, pc, scratch, sampleRet, pulled, trainCalls,
                 model, err, renames>>

\* line 106 with the sleep of line 108 left out: return as soon as
\* exists() is true
PollPresentNoDelay(p) ==
  /\ pc[p] = "Waiting"
  /\ fs[FinalPath].exists
  /\ lastPoll' = [lastPoll EXCEPT ![p] = "present"]
  /\ pc' = [pc EXCEPT ![p] = "Done"]
  /\ UNCHANGED <<passwd, repeats, char_count, dataset, maxchars, data_keys,
                 model_path, assets_path, fs,
                 dirs, initFinal, scratch, sampleRet, pulled, trainCalls, model,
                 err, renames>>

\* line 106: exists() is true, the loop ends
PollPresent(p) ==
  /\ pc[p] = "Waiting"
  /\ fs[FinalPath].exists
  /\ lastPoll' = [lastPoll EXCEPT ![p] = "present"]
  /\ pc' = [pc EXCEPT ![p] = "Confirm"]
  /\ UNCHANGED <<passwd, repeats, char_count, dataset, maxchars, data_keys,
                 model_path, assets_path, fs,
                 dirs, initFinal, scratch, sampleRet, pulled, trainCalls, model,
                 err, renames>>

\* lines 108-109: the one further sleep(1), then return abs_model_path
Confirm(p) ==
  /\ pc[p] = "Confirm"
  /\ pc' = [pc EXCEPT ![p] = "Done"]
  /\ UNCHANGED <<passwd, repeats, char_count, dataset, maxchars, data_keys,
                 model_path, assets_path, fs,
                 dirs, initFinal, scratch, sampleRet, pulled, trainCalls, model,
                 err, lastPoll, renames>>

\* lines 57-109: one step of process p in _train_sentencepiece
Step(p) ==
  \/ SampleOk(p)
  \/ SampleExhausted(p)
  \/ Train(p)
  \/ TrainFail(p)
  \/ MakeDirs(p)
  \/ MakeDirsFail(p)
  \/ CopyOpen(p)
  \/ CopyChunk(p)
  \/ CopyFail(p)
  \/ Rename(p)
  \/ RenameFail(p)
  \/ PollFail(p)
  \/ PollAbsent(p)
  \/ PollPresent(p)
  \/ Confirm(p)

Next == \E p \in Procs : Step(p)

Spec == Init /\ [][Next]_vars

\* ------------------------------------------------- the sampler on its own
\* every stream, budget and key tuple within the bounds; process 0 samples
SamplerInit ==
  /\ repeats = FALSE
  /\ dataset \in Datasets
  /\ maxchars \in 1 .. MaxChars
  /\ data_keys \in KeyTuples
  /\ model_path = <<"assets", "/", "tokenizer">>
  /\ assets_path = <<"assets">>
  /\ initFinal = Absent
  /\ passwd = SomeUsers
  /\ fs = [f \in FilePaths |-> Absent]
  /\ dirs = MakedirsOf(Cwd)
  /\ ProcInit

SamplerNext == SampleOk(0) \/ SampleExhausted(0)

SamplerSpec == SamplerInit /\ [][SamplerNext]_vars

\* ------------------------------------------------ what the claims speak of
Followers == Procs \ {0}

\* the stream written out in full: records in stream order, within a record
\* the keys in the order given, each value followed by one newline
SerialLines(ds, keys) ==
  [n \in 1 .. (Len(ds) * Len(keys)) |->
     Line(ds[((n - 1) \div Len(keys)) + 1], keys[((n - 1) % Len(keys)) + 1])]

RECURSIVE Flatten(_)
Flatten(lines) ==
  IF lines = <<>> THEN <<>> ELSE Head(lines) \o Flatten(Tail(lines))

FullSerialization(ds, keys) == Flatten(SerialLines(ds, keys))

IsPrefix(s, t) == Len(s) <= Len(t) /\ s = SubSeq(t, 1, Len(s))

\* the longest single field write the stream can cause
MaxSingleFieldLength(ds, keys) ==
  LET lens == {Len(Line(ds[i], keys[j])) : i \in 1 .. Len(ds), j \in 1 .. Len(keys)}
  IN  IF lens = {} THEN 0 ELSE CHOOSE n \in lens : \A m \in lens : m <= n

\* length of the last line of a file of newline-terminated lines
LastLineLen(file) ==
  LET nls == {i \in 1 .. (Len(file) - 1) : file[i] = NL}
      prev == IF nls = {} THEN 0 ELSE CHOOSE i \in nls : \A j \in nls : j <= i
  IN  Len(file) - prev

\* ----------------------------------------------------------------- claims

\* C1: only process 0 ever samples or trains; every process with another
\* index pulls no record, never calls the training routine and is only ever
\* at Start, polling finalPath, or done.
C1_OnlyLeaderSamplesOrTrains ==
  \A p \in Followers :
    /\ pulled[p] = 0
    /\ trainCalls[p] = 0
    /\ pc[p] \in {"Start", "Waiting", "Confirm", "Done"}

\* C2: in every reachable state finalPath is absent or holds a complete
\* artifact (the one of the earlier run or the trained model), and until the
\* rename step finalPath is as it was when the job started.
C2_FinalPathNeverPartial ==
  /\ fs[FinalPath] \in {Absent, File(OldModel), File(TrainedModel)}
  /\ renames = 0 => fs[FinalPath] = initFinal

\* C2 witness: the copy to the staging path is half done while a follower
\* has polled finalPath
C2_Witness ==
  /\ pc[0] = "Copying"
  /\ fs[StagingPath].exists
  /\ Len(fs[StagingPath].data) = 1
  /\ \E p \in Followers : pc[p] = "Waiting" /\ lastPoll[p] = "absent"

\* C3: whatever finalPath held when the job started, a follower that is Done
\* is so after the rename of this job.
C3_FollowerDoneAfterRename ==
  \A p \in Followers : pc[p] = "Done" => renames >= 1

\* C4: with one or more keys a returned byteCount is at least maxBytes and
\* less than maxBytes plus the longest single field write.
C4_OvershootWithinOneField ==
  \A p \in Procs :
    (sampleRet[p].returned /\ data_keys /= <<>>) =>
      /\ maxchars <= sampleRet[p].char_count
      /\ sampleRet[p].char_count
           < maxchars + MaxSingleFieldLength(dataset, data_keys)

\* C5: when the stream holds fewer bytes than maxBytes, a process that has
\* sampled has failed with StreamExhausted, got no (path, byteCount) back,
\* called no training, and (the leader) left the staging path and finalPath
\* untouched.
C5_ExhaustionIsFatal ==
  \A p \in Procs :
    (pc[p] /= "Start" /\ Len(FullSerialization(dataset, data_keys)) < maxchars) =>
      /\ pc[p] = "Failed"
      /\ err[p] = "StreamExhausted"
      /\ sampleRet[p] = NoReturn
      /\ pulled[p] = Len(dataset)
      /\ trainCalls[p] = 0
      /\ model[p] = Absent
      /\ IsLeader(p) =>
           (renames = 0 /\ fs[FinalPath] = initFinal /\ fs[StagingPath] = Absent)

\* C5 witness: the leader ran out of records after writing some
C5_Witness ==
  /\ err[0] = "StreamExhausted"
  /\ pulled[0] = Len(dataset)
  /\ scratch[0] /= <<>>
  /\ scratch[0] = FullSerialization(dataset, data_keys)

\* C6: when finalPath held a complete artifact at the start, it holds exactly
\* that old content in every state before the rename and exactly the new
\* content in every state after it; the rename needs no condition on finalPath.
C6_RepublishOldThenNew ==
  initFinal.exists =>
    /\ renames = 0 => fs[FinalPath] = initFinal
    /\ renames >= 1 => fs[FinalPath] = File(TrainedModel)
    /\ pc[0] = "Rename" => ENABLED Rename(0)

\* C6 witness: the old artifact has been replaced by the new one
C6_Witness ==
  /\ initFinal = File(OldModel)
  /\ renames = 1
  /\ fs[FinalPath] = File(TrainedModel)
  /\ fs[FinalPath] /= initFinal

\* C7: every step of a process with index other than 0 leaves every file
\* (finalPath, the staging path) and every directory unchanged.
C7_FollowersWriteNothing ==
  [][\A p \in Followers : Step(p) => UNCHANGED <<fs, dirs>>]_vars

\* C7 witness: a follower saw finalPath and finished after the rename
C7_Witness ==
  \E p \in Followers : pc[p] = "Done" /\ lastPoll[p] = "present" /\ renames = 1

\* C8: finalPath changes only in a rename, there is at most one rename and
\* exactly one once the leader is Done, and from then on finalPath keeps
\* its content.
C8_PublishedOnce ==
  /\ [](renames <= 1 /\ (pc[0] = "Done" => renames = 1))
  /\ [][/\ fs'[FinalPath] /= fs[FinalPath] => renames' = renames + 1
        /\ pc[0] = "Done" => (pc'[0] = "Done" /\ fs'[FinalPath] = fs[FinalPath])]_vars

\* C8 witness: the leader is Done and a follower is still to poll
C8_Witness ==
  /\ pc[0] = "Done"
  /\ renames = 1
  /\ \E p \in Followers : pc[p] = "Waiting"

\* C9: with more than one key the file ends with the field write that
\* crossed the threshold, so without its last line the count is below
\* maxBytes.
C9_StopsMidRecord ==
  \A p \in Procs :
    (sampleRet[p].returned /\ Len(data_keys) > 1) =>
      sampleRet[p].char_count - LastLineLen(scratch[p]) < maxchars

\* C10: on success the scratch file is a prefix of the stream written out in
\* full (records in order, keys in the order given, one newline after each
\* value) and the byteCount returned is the number of bytes in the file.
C10_FileIsPrefixAndCountExact ==
  \A p \in Procs :
    sampleRet[p].returned =>
      /\ IsPrefix(scratch[p], FullSerialization(dataset, data_keys))
      /\ sampleRet[p].char_count = Len(scratch[p])

\* C10 witness: three records of two bytes, maxBytes 4: the file is two
\* lines, six bytes
C10_Witness ==
  /\ Len(dataset) = 3
  /\ \A i \in 1 .. 3 : dataset[i].text = <<"a", "a">>
  /\ data_keys = <<"text">>
  /\ maxchars = 4
  /\ sampleRet[0] = [returned |-> TRUE, char_count |-> 6]
  /\ scratch[0] = <<"a", "a", NL, "a", "a", NL>>
  /\ pulled[0] = 2

C12_FollowersHangWhenLeaderFails ==
  (pc[0] = "Failed" /\ renames = 0) => \A p \in Followers : pc[p] /= "Done"

\* C13: a follower is only ever at Start, Waiting (polling or in its
\* confirmation sleep) or Done, and ends with no error.
C13_FollowerNeverFails ==
  \A p \in Followers : pc[p] /= "Failed" /\ err[p] = "none"

\* C14: for a local finalPath the leader comes to the copy with the directory
\* of finalPath in existence, whatever assets_path and model_path are; for a
\* gs:// finalPath the directories stay as they were.
C14_DestinationDirectoryCreated ==
  /\ (pc[0] \in {"Copy", "Copying", "Rename", "Done"}
        /\ ~StartsWithGs(model_path)) => Dirname(FinalPath) \in dirs
  /\ StartsWithGs(model_path) =>
       \A d \in dirs :
         d \in MakedirsOf(Cwd) \cup MakedirsOf(AbsAssetsPath(<<"assets">>, passwd))
                \cup MakedirsOf(AbsAssetsPath(<<"vocab">>, passwd))

\* C15: whenever the leader has ended with an error, finalPath is exactly as
\* it was when the job started.
C15_FailedLeaderLeavesFinalPath ==
  pc[0] = "Failed" =>
    /\ err[0] \in {"StreamExhausted", "TrainingFailure", "PublishFailure"}
    /\ fs[FinalPath] = initFinal
    /\ renames = 0

\* C15 witness: the copy failed half way over an artifact of an earlier run
C15_Witness ==
  /\ pc[0] = "Failed"
  /\ err[0] = "PublishFailure"
  /\ fs[StagingPath].exists
  /\ Len(fs[StagingPath].data) = 1
  /\ initFinal = File(OldModel)

\* ---------------------------------------------------------------- progress
\* process 0 is an operating-system process of its own: while it has a step
\* to take (every call it makes returns or raises) it takes one
LeaderFairSpec == Spec /\ WF_vars(Step(0))

\* each follower keeps running its wait loop: a poll that would find
\* finalPath is made (unless the follower has ended), the sleep of line 108
\* ends
FollowerFairSpec ==
  Spec /\ \A p \in Followers : WF_vars(PollPresent(p)) /\ WF_vars(Confirm(p))

\* C16: the leader is never in the wait loop, it has a step of its own to
\* take in every state in which it has not ended, and so it ends, Done or
\* Failed, whatever the followers do.
C16_LeaderNeverWaits ==
  /\ [](pc[0] \notin {"Waiting", "Confirm"})
  /\ [](pc[0] \notin {"Done", "Failed"} => ENABLED <<Step(0)>>_vars)
  /\ <>(pc[0] \in {"Done", "Failed"})

\* C16 witness: the leader is Done and a follower has not taken a step
C16_Witness ==
  /\ pc[0] = "Done"
  /\ \E p \in Followers : pc[p] = "Start"

\* C17: once the leader is Done, every follower that is in Waiting comes to
\* see finalPath and to be Done.
C17_FollowersFinishAfterPublish ==
  \A p \in Followers : (pc[0] = "Done" /\ pc[p] = "Waiting") ~> (pc[p] = "Done")

\* ------------------------------------------- the sampler loop, step by step
\* line 50: whether next(ds_iter) has a record to give
HasNext(p) ==
  IF repeats THEN Len(dataset) > 0 ELSE pulled[p] < Len(dataset)

\* line 50: example = next(ds_iter), after pulled[p] records
NextExample(p) == dataset[(pulled[p] % Len(dataset)) + 1]

\* lines 49-54: one iteration of the while loop
LoopIter(p) ==
  /\ pc[p] = "Start"
  /\ LoopCond(char_count[p], maxchars)
  /\ HasNext(p)
  /\ LET st == ForKeys(NextExample(p), data_keys,
                       [char_count |-> char_count[p], outfp |-> scratch[p]]) IN
       /\ char_count' = [char_count EXCEPT ![p] = st.char_count]
       /\ scratch' = [scratch EXCEPT ![p] = st.outfp]
  /\ pulled' = [pulled EXCEPT ![p] = @ + 1]
  /\ UNCHANGED <<passwd, repeats, dataset, maxchars, data_keys, model_path,
                 assets_path, fs, dirs, initFinal, pc, sampleRet, trainCalls,
                 model, err, lastPoll, renames>>

\* lines 49, 55: the while condition is false, return outfp.name, char_count
LoopReturn(p) ==
  /\ pc[p] = "Start"
  /\ ~LoopCond(char_count[p], maxchars)
  /\ sampleRet' = [sampleRet EXCEPT ![p] =
                     [returned |-> TRUE, char_count |-> char_count[p]]]
  /\ pc' = [pc EXCEPT ![p] = "Sampled"]
  /\ UNCHANGED <<passwd, repeats, char_count, dataset, maxchars, data_keys,
                 model_path, assets_path, fs, dirs, initFinal, scratch, pulled,
                 trainCalls, model, err, lastPoll, renames>>

\* line 50: next(ds_iter) raises StopIteration
LoopStopIteration(p) ==
  /\ pc[p] = "Start"
  /\ LoopCond(char_count[p], maxchars)
  /\ ~HasNext(p)
  /\ Fail(p, "StreamExhausted")
  /\ UNCHANGED <<passwd, repeats, char_count, dataset, maxchars, data_keys,
                 model_path, assets_path, fs, dirs, initFinal, scratch,
                 sampleRet, pulled, trainCalls, model, lastPoll, renames>>

\* streams of up to two records, ending or starting over for ever; the
\* empty key tuple is run on the ending streams (on an endless stream its
\* loop has no last step)
LoopInit ==
  /\ repeats \in BOOLEAN
  /\ dataset \in UNION {[1 .. n -> Records] : n \in 0 .. 2}
  /\ maxchars \in 1 .. MaxChars
  /\ data_keys \in KeyTuples
  /\ (repeats /\ Len(dataset) > 0) => data_keys /= <<>>
  /\ model_path = <<"assets", "/", "tokenizer">>
  /\ assets_path = <<"assets">>
  /\ initFinal = Absent
  /\ passwd = SomeUsers
  /\ fs = [f \in FilePaths |-> Absent]
  /\ dirs = MakedirsOf(Cwd)
  /\ ProcInit

LoopNext == LoopIter(0) \/ LoopReturn(0) \/ LoopStopIteration(0)

\* the loop is straight-line code of a running process: it takes its next
\* step while it has one
LoopFairSpec == LoopInit /\ [][LoopNext]_vars /\ WF_vars(LoopNext)

\* C18 as stated: for every tuple of keys, the empty one too, every
\* iteration of the loop that does not end it raises the running counter,
\* and the loop ends.
C18_EveryIterationProgresses ==
  /\ [][LoopIter(0) => char_count'[0] > char_count[0]]_vars
  /\ <>(pc[0] /= "Start")

\* C18 amended: for every tuple of one or more keys every iteration raises
\* the running counter, there are at most maxBytes iterations and the loop
\* ends, on an ending and on an endless stream; with the empty tuple the
\* counter stays 0 and the loop never returns a result: it ends only where
\* the stream ends.
C18_ProgressWithKeys ==
  /\ [][(data_keys /= <<>> /\ LoopIter(0)) =>
          char_count'[0] > char_count[0]]_vars
  /\ [](data_keys /= <<>> => pulled[0] <= maxchars)
  /\ <>(data_keys = <<>> \/ pc[0] /= "Start")
  /\ [](data_keys = <<>> => (char_count[0] = 0 /\ sampleRet[0] = NoReturn))

\* C18 witness: an endless stream has started over and the loop has returned
C18_Witness ==
  /\ repeats
  /\ data_keys /= <<>>
  /\ pulled[0] > Len(dataset)
  /\ sampleRet[0].returned
  /\ sampleRet[0].char_count >= maxchars

====
